---- MODULE Spec2Model ----
(***************************************************************************)
(* Transport layer of mcpinspect: the Discovery-Stream transport           *)
(* (TraditionalSSETransport), the Streamable transport                     *)
(* (SSEClientTransport), the subprocess wrapper (CleaningStdioTransport),  *)
(* the message classifier, the null-stripping normalizer and endpoint      *)
(* resolution.                                                             *)
(*                                                                         *)
(* Strings whose characters matter (URLs, endpoints) are sequences of      *)
(* one-character strings, so that prefix tests, LastIndex and slicing are  *)
(* computed as Go computes them.                                           *)
(***************************************************************************)
EXTENDS Integers, Sequences, FiniteSets, TLC

VARIABLES
    arg,             \* input of the pure function under check
    res,             \* [done |-> FALSE], then [done |-> TRUE, out |-> its output]
    serverType,      \* MCPServer.Type: "stdio", "http" or "sse"
    sseURL,          \* TraditionalSSETransport.sseURL
    started,         \* TraditionalSSETransport.started
    postEndpoint,    \* TraditionalSSETransport.postEndpoint ("" is <<>>)
    sseResp,         \* TraditionalSSETransport.sseResp: "nil" or "open"
    startPc,         \* position of the Start call: "idle" or "select"
    readerPc,        \* background reader: "none", "running" or "exited"
    eventType,       \* readSSEEvents' local eventType
    dataLines,       \* readSSEEvents' local dataLines
    endpointSent,    \* readSSEEvents' local endpointSent
    blockNamed,      \* an event: line was read since the last blank line
    endpointCh,      \* buffered channel (capacity 1) of endpoint strings
    errCh,           \* buffered channel (capacity 1) of reader errors
    messageHandler,  \* TRUE when a message handler is registered
    closeHandler,    \* TRUE when a close handler is registered
    errorHandler,    \* TRUE when an error handler is registered
    sessionID,       \* SSEClientTransport.sessionID
    gets,            \* number of HTTP GETs issued so far
    hist,            \* what earlier calls on this instance returned
    last,            \* record of the last completed call or dispatch
    callers          \* concurrent Start calls: each call's position and locals

pvars == <<arg, res>>
cvars == <<callers>>
tvars == <<serverType, sseURL, started, postEndpoint, sseResp, startPc,
           readerPc, eventType, dataLines, endpointSent, blockNamed, endpointCh, errCh,
           messageHandler, closeHandler, errorHandler,
           sessionID, gets, hist, last>>
vars == <<arg, res, serverType, sseURL, started, postEndpoint, sseResp,
          startPc, readerPc, eventType, dataLines, endpointSent, blockNamed, endpointCh,
          errCh, messageHandler, closeHandler, errorHandler,
          sessionID, gets, hist, last, callers>>

None == [none |-> TRUE]
NotYet == [done |-> FALSE]
Done(x) == [done |-> TRUE, out |-> x]
NoCall == [op |-> "none"]

(***************************************************************************)
(* String helpers (package strings).                                       *)
(***************************************************************************)
S_http == <<"h", "t", "t", "p">>
S_https == <<"h", "t", "t", "p", "s">>
S_sep == <<":", "/", "/">>

\* strings.HasPrefix(s, p)
HasPrefix(s, p) == Len(s) >= Len(p) /\ SubSeq(s, 1, Len(p)) = p

\* strings.LastIndex(s, c) for a one-character c: 0-based, -1 when absent
LastIndex(s, c) ==
    IF \E i \in 1..Len(s) : s[i] = c
    THEN (CHOOSE i \in 1..Len(s) :
              s[i] = c /\ \A j \in (i + 1)..Len(s) : s[j] # c) - 1
    ELSE -1

\* the Go slice s[:n]
Slice(s, n) == SubSeq(s, 1, n)

(***************************************************************************)
(* Endpoint resolution.                                                    *)
(***************************************************************************)
\* the index threshold of resolveEndpoint
SchemeSkip == 8

\* TraditionalSSETransport.resolveEndpoint, with t.sseURL = url
resolveEndpoint(url, endpoint) ==
    IF HasPrefix(endpoint, S_http \o S_sep) \/ HasPrefix(endpoint, S_https \o S_sep)
    THEN endpoint
    ELSE LET idx == LastIndex(url, "/")
             base == IF idx > SchemeSkip THEN Slice(url, idx) ELSE url
         IN IF HasPrefix(endpoint, <<"/">>)
            THEN base \o endpoint
            ELSE base \o <<"/">> \o endpoint

(***************************************************************************)
(* JSON values, as encoding/json reads and writes them.                    *)
(*                                                                         *)
(* A JSON text value is a record tagged by t.  A number literal            *)
(* [t |-> "number", e53 |-> e, off |-> d] is the integer e * 2^53 + d: the *)
(* literals with e53 = 0 are small integers, those with e53 = 1 lie just   *)
(* above 2^53, where float64 has a spacing of 2.                           *)
(***************************************************************************)
MaxOff == 1
KeyOrder == <<"a", "b">>
Keys == {KeyOrder[i] : i \in 1..Len(KeyOrder)}

JNull == [t |-> "null"]
JString == [t |-> "string"]
JNumber(e, d) == [t |-> "number", e53 |-> e, off |-> d]
JNested(v) == [t |-> "object", x |-> v]     \* the object {"x": v}

\* strconv.ParseFloat(lit, 64) followed by the exact decimal the float64
\* prints as: below 2^53 every integer is exact; in [2^53, 2^54) the value
\* is rounded to the nearest multiple of 2, ties to the even mantissa
\* (the mantissa of 2^53 + 2k is 2^52 + k).
Float64Off(e, d) ==
    IF e = 0 \/ d % 2 = 0 THEN d
    ELSE IF ((d - 1) \div 2) % 2 = 0 THEN d - 1 ELSE d + 1

\* json.Unmarshal of one value into interface{}: null is nil, a number is a
\* float64, an object is a map[string]interface{}.
RECURSIVE DecodeValue(_)
DecodeValue(v) ==
    CASE v.t = "null" -> [g |-> "nil"]
      [] v.t = "string" -> [g |-> "string"]
      [] v.t = "number" -> [g |-> "float64", e53 |-> v.e53,
                            off |-> Float64Off(v.e53, v.off)]
      [] v.t = "object" -> [g |-> "map", x |-> DecodeValue(v.x)]

\* json.Marshal of one interface{} value.
RECURSIVE EncodeValue(_)
EncodeValue(g) ==
    CASE g.g = "nil" -> JNull
      [] g.g = "string" -> JString
      [] g.g = "float64" -> JNumber(g.e53, g.off)
      [] g.g = "map" -> JNested(EncodeValue(g.x))

(***************************************************************************)
(* json.RawMessage params.  form "empty" is a nil or zero-length slice,    *)
(* "null" the literal null, "array" a JSON text that is not an object, and *)
(* "object" an object whose members are listed in wire order.              *)
(***************************************************************************)
RawEmpty == [form |-> "empty", members |-> <<>>]
RawNull == [form |-> "null", members |-> <<>>]
RawArray == [form |-> "array", members |-> <<>>]
RawObject(ms) == [form |-> "object", members |-> ms]

MemberKeys(ms) == {ms[i].key : i \in 1..Len(ms)}
\* the value of the last member named k (encoding/json: the last one wins)
MemberVal(ms, k) ==
    ms[CHOOSE i \in 1..Len(ms) :
           ms[i].key = k /\ \A j \in (i + 1)..Len(ms) : ms[j].key # k].val

\* json.Unmarshal(raw, &params) with params a map[string]interface{}:
\* err is TRUE when the text is not an object; null leaves the map nil.
UnmarshalMap(raw) ==
    CASE raw.form = "array" -> [err |-> TRUE, isNil |-> TRUE, keys |-> {},
                                at |-> [k \in {} |-> None]]
      [] raw.form = "null" -> [err |-> FALSE, isNil |-> TRUE, keys |-> {},
                               at |-> [k \in {} |-> None]]
      [] raw.form = "object" ->
            [err |-> FALSE, isNil |-> FALSE, keys |-> MemberKeys(raw.members),
             at |-> [k \in MemberKeys(raw.members) |->
                        DecodeValue(MemberVal(raw.members, k))]]

\* json.Marshal(m) for a non-nil map: members sorted by key
MarshalMap(keys, at) ==
    LET ordered == SelectSeq(KeyOrder, LAMBDA k : k \in keys)
    IN RawObject([i \in 1..Len(ordered) |->
                     [key |-> ordered[i], val |-> EncodeValue(at[ordered[i]])]])

\* the "Remove null values" loop shared by the three cleanMessage methods
NonNilKeys(m) == {k \in m.keys : m.at[k].g # "nil"}

(***************************************************************************)
(* The three normalizers.  A message is [type, params]; JsonRpcRequest is  *)
(* non-nil exactly when type = "request".  Each method assigns to          *)
(* msg.JsonRpcRequest.Params through the caller's pointer and returns that *)
(* pointer, so its result is also the caller's message after the call.     *)
(***************************************************************************)
\* CleaningStdioTransport.cleanMessage
cleanMessageStdio(msg) ==
    IF msg.type # "request" \/ msg.params.form = "empty" THEN msg
    ELSE LET m == UnmarshalMap(msg.params)
         IN IF m.err THEN msg
            ELSE IF NonNilKeys(m) = {}
                 THEN [msg EXCEPT !.params = RawObject(<<>>)]
                 ELSE [msg EXCEPT !.params = MarshalMap(NonNilKeys(m), m.at)]

\* SSEClientTransport.cleanMessage
cleanMessageSSEClient(msg) ==
    IF msg.type # "request" \/ msg.params.form = "empty" THEN msg
    ELSE LET m == UnmarshalMap(msg.params)
         IN IF m.err THEN msg
            ELSE [msg EXCEPT !.params = MarshalMap(NonNilKeys(m), m.at)]

\* TraditionalSSETransport.cleanMessage
cleanMessageTraditional(msg) ==
    IF msg.type # "request" \/ msg.params.form = "empty" THEN msg
    ELSE LET m == UnmarshalMap(msg.params)
         IN IF m.err THEN msg
            ELSE IF NonNilKeys(m) = {}
                 THEN [msg EXCEPT !.params = RawObject(<<>>)]
                 ELSE [msg EXCEPT !.params = MarshalMap(NonNilKeys(m), m.at)]

(***************************************************************************)
(* The message classifier.  An inbound payload is a JSON object described  *)
(* by the members that decide its shape: jsonrpc is "absent", "empty" (the *)
(* empty string) or "2.0"; id is "absent" or "num"; result, error and      *)
(* method say whether that member is present.                              *)
(***************************************************************************)
Payloads == [jsonrpc : {"absent", "empty", "2.0"}, id : {"absent", "num"},
             result : BOOLEAN, error : BOOLEAN, method : BOOLEAN]

\* the Jsonrpc field after a decode: the zero value "" when the member is absent
JsonrpcField(p) == IF p.jsonrpc = "2.0" THEN "2.0" ELSE ""

\* json.Unmarshal(body, &response), response a transport.BaseJSONRPCResponse:
\* its UnmarshalJSON requires the members id, jsonrpc and result
UnmarshalResponse(p) ==
    [ok |-> p.id # "absent" /\ p.jsonrpc # "absent" /\ p.result,
     Jsonrpc |-> JsonrpcField(p)]

\* json.Unmarshal(body, &errorResponse), a transport.BaseJSONRPCError: a plain
\* struct, so encoding/json accepts any object and leaves absent fields zero
UnmarshalError(p) == [ok |-> TRUE, Jsonrpc |-> JsonrpcField(p)]

\* json.Unmarshal(body, &notification), a transport.BaseJSONRPCNotification:
\* its UnmarshalJSON requires jsonrpc and method and rejects an id
UnmarshalNotification(p) ==
    [ok |-> p.jsonrpc # "absent" /\ p.method /\ p.id = "absent",
     Jsonrpc |-> JsonrpcField(p)]

\* json.Unmarshal(body, &request), a transport.BaseJSONRPCRequest: its
\* UnmarshalJSON requires id, jsonrpc and method
UnmarshalRequest(p) ==
    [ok |-> p.id # "absent" /\ p.jsonrpc # "absent" /\ p.method,
     Jsonrpc |-> JsonrpcField(p)]

\* a test that forgets the version marker
AcceptedAnyVersion(d) == d.ok

\* one "err == nil && x.Jsonrpc != \"\"" test
Accepted(d) == d.ok /\ d.Jsonrpc # ""

\* the decode cascade both transports share: Response, Error, Notification,
\* Request, first accepted wins; "none" when no variant accepts
Classify(p) ==
    IF Accepted(UnmarshalResponse(p)) THEN "response"
    ELSE IF Accepted(UnmarshalError(p)) THEN "error"
    ELSE IF Accepted(UnmarshalNotification(p)) THEN "notification"
    ELSE IF Accepted(UnmarshalRequest(p)) THEN "request"
    ELSE "none"

\* A body or event data is a byte string: json says whether it is one JSON
\* object (payload then describes it), text holds its characters otherwise.
DJson(p) == [json |-> TRUE, text |-> <<"{", "}">>, payload |-> p]
DText(t) == [json |-> FALSE, text |-> t, payload |-> None]

\* the cascade applied to bytes: no variant decodes bytes that are not one
\* JSON object
ClassifyBytes(d) == IF d.json THEN Classify(d.payload) ELSE "none"

\* SSEClientTransport.handleJSONResponse: what the handler received ("none"
\* when it was not invoked), the returned error and the bytes it carries
handleJSONResponse(handler, body) ==
    IF ~handler THEN [delivered |-> "none", err |-> "nil", raw |-> None]
    ELSE IF ClassifyBytes(body) # "none"
         THEN [delivered |-> ClassifyBytes(body), err |-> "nil", raw |-> None]
         ELSE [delivered |-> "none", err |-> "invalid response", raw |-> body]

\* TraditionalSSETransport.handleMessage: what the handler received
handleMessage(handler, data) ==
    IF ~handler THEN "none" ELSE ClassifyBytes(data)

\* strings.Join(dataLines, "\n"): two JSON documents joined by a newline
\* are not one JSON document
RECURSIVE JoinText(_)
JoinText(ds) ==
    IF Len(ds) = 1 THEN ds[1].text
    ELSE ds[1].text \o <<"\n">> \o JoinText(Tail(ds))
JoinLines(ds) == IF Len(ds) = 1 THEN ds[1] ELSE DText(JoinText(ds))

(***************************************************************************)
(* Specifications of the pure functions: Init draws the input, the action  *)
(* applies the function.  No transport exists in these specifications.     *)
(***************************************************************************)
NoTransport ==
    /\ serverType = "none" /\ sseURL = <<>> /\ started = FALSE
    /\ postEndpoint = <<>> /\ sseResp = "nil" /\ startPc = "idle"
    /\ readerPc = "none" /\ eventType = "" /\ dataLines = <<>>
    /\ endpointSent = FALSE /\ blockNamed = FALSE /\ endpointCh = <<>> /\ errCh = <<>>
    /\ messageHandler = FALSE /\ closeHandler = FALSE
    /\ errorHandler = FALSE /\ sessionID = "" /\ gets = 0
    /\ hist = NoCall /\ last = NoCall /\ callers = <<>>

\* ---- endpoint resolution ----
Schemes == {S_http, S_https}
Hosts == {<<"h">>, <<"h", "o">>}
Paths == {<<>>, <<"/", "s">>, <<"/", "a", "/", "s">>, <<"/", "s", "/">>}
Queries == {<<>>, <<"?", "r", "=", "/", "x">>}
RelativeEndpoints == {<<"/", "m">>, <<"m">>, <<"a", "/", "m">>}
AbsoluteEndpoints == {S_https \o S_sep \o <<"o", "/", "x">>,
                      S_http \o S_sep \o <<"o", "/", "x">>}

\* the GET URL the caller configured
OriginURL(a) == a.scheme \o S_sep \o a.host \o a.path \o a.query

ResolveInputs ==
    [fn : {"resolve"}, scheme : Schemes, host : Hosts, path : Paths,
     query : Queries, endpoint : RelativeEndpoints \cup AbsoluteEndpoints]

InitResolve == arg \in ResolveInputs /\ res = NotYet /\ NoTransport

Resolve ==
    /\ arg.fn = "resolve" /\ ~res.done
    /\ res' = Done(resolveEndpoint(OriginURL(arg), arg.endpoint))
    /\ UNCHANGED <<arg, cvars, tvars>>

SpecResolve == InitResolve /\ [][Resolve]_vars

\* ---- normalizer ----
NumberLits == {JNumber(e, d) : e \in 0..1, d \in 0..MaxOff}
Scalars == {JNull, JString} \cup NumberLits
Values == Scalars \cup {JNested(JNull)}

ObjectTexts ==
    {RawObject(<<>>)}
    \cup {RawObject(<<[key |-> k, val |-> v]>>) : k \in Keys, v \in Values}
    \cup {RawObject(<<[key |-> k1, val |-> v1], [key |-> k2, val |-> v2]>>) :
            <<k1, k2, v1, v2>> \in
                {t \in Keys \X Keys \X Values \X Values : t[1] # t[2]}}
ParamTexts == {RawEmpty, RawNull, RawArray} \cup ObjectTexts

Messages ==
    [type : {"request"}, params : ParamTexts]
    \cup [type : {"response", "error"}, params : {RawEmpty}]
    \cup [type : {"notification"},
          params : {RawEmpty, RawObject(<<[key |-> "a", val |-> JNull]>>)}]

InitClean ==
    /\ arg \in [fn : {"clean"}, msg : Messages]
    /\ res = NotYet /\ NoTransport

Clean ==
    /\ arg.fn = "clean" /\ ~res.done
    /\ res' = Done([stdio |-> cleanMessageStdio(arg.msg),
                    http |-> cleanMessageSSEClient(arg.msg),
                    sse |-> cleanMessageTraditional(arg.msg)])
    /\ UNCHANGED <<arg, cvars, tvars>>

SpecClean == InitClean /\ [][Clean]_vars

\* ---- classifier ----
InitClassify ==
    /\ arg \in [fn : {"classify"}, handler : BOOLEAN, payload : Payloads]
    /\ res = NotYet /\ NoTransport

ClassifyPayload ==
    /\ arg.fn = "classify" /\ ~res.done
    /\ res' = Done([http |-> handleJSONResponse(arg.handler, DJson(arg.payload)),
                    sse |-> handleMessage(arg.handler, DJson(arg.payload))])
    /\ UNCHANGED <<arg, cvars, tvars>>

SpecClassify == InitClassify /\ [][ClassifyPayload]_vars

\* ---- credential lookup ----
\* server names and the keys of the mcpOAuth map are character sequences,
\* URLs and tokens are atoms
ServerNames == {<<"a">>, <<"a", "b">>}
ServerURLs == {"u1", "u2"}
CredKeys == {<<"a", "|", "1">>, <<"a", "b", "|", "2">>}

\* an MCPOAuthEntry stored under key k; its token names the entry
EntriesAt(k) ==
    [ServerName : ServerNames, ServerURL : ServerURLs, AccessToken : {k}]

\* the mcpOAuth maps json.Unmarshal can produce
RECURSIVE CredMaps(_)
CredMaps(keys) ==
    IF keys = {} THEN {<<>>}
    ELSE LET k == CHOOSE x \in keys : TRUE
             rest == CredMaps(keys \ {k})
         IN rest \cup {[x \in DOMAIN m \cup {k} |-> IF x = k THEN e ELSE m[x]] :
                         m \in rest, e \in EntriesAt(k)}

\* what the keychain read gives: the command fails, its output is not
\* JSON, or it decodes to a credentials map
TokenInputs ==
    [fn : {"token"}, serverName : ServerNames, serverURL : ServerURLs,
     read : {"ok"}, creds : CredMaps(CredKeys)]
    \cup [fn : {"token"}, serverName : ServerNames, serverURL : ServerURLs,
          read : {"command failed", "invalid JSON"}, creds : {<<>>}]

\* the test of the "Look for matching server" loop
entryMatches(key, entry, serverName, serverURL) ==
    \/ entry.ServerName = serverName
    \/ entry.ServerURL = serverURL
    \/ (Len(key) > Len(serverName) /\ Slice(key, Len(serverName)) = serverName)

\* getMCPOAuthToken: every result the call can return.  The loop ranges
\* over a Go map, whose iteration order is unspecified, and returns at the
\* first entry that passes the test, so each passing entry can be the one
\* returned
getMCPOAuthToken(serverName, serverURL, read, creds) ==
    IF read # "ok"
    THEN {[ok |-> FALSE, err |-> read, key |-> <<>>, token |-> <<>>]}
    ELSE LET hits == {k \in DOMAIN creds :
                        entryMatches(k, creds[k], serverName, serverURL)}
         IN IF hits = {}
            THEN {[ok |-> FALSE, err |-> "no token found", key |-> <<>>,
                   token |-> <<>>]}
            ELSE {[ok |-> TRUE, err |-> "nil", key |-> k,
                   token |-> creds[k].AccessToken] : k \in hits}

InitToken == arg \in TokenInputs /\ res = NotYet /\ NoTransport

LookupToken ==
    /\ arg.fn = "token" /\ ~res.done
    /\ \E out \in getMCPOAuthToken(arg.serverName, arg.serverURL, arg.read,
                                   arg.creds) :
         res' = Done(out)
    /\ UNCHANGED <<arg, cvars, tvars>>

SpecToken == InitToken /\ [][LookupToken]_vars

(***************************************************************************)
(* The transports.  connectToServer builds exactly one transport, chosen   *)
(* by the configured server type, so Init draws serverType and every       *)
(* action belongs to the transport of that type.                           *)
(***************************************************************************)
MaxGets == 2          \* HTTP GETs issued in one behaviour
MaxDataLines == 1     \* data lines of one stream event
MaxBodyLines == 3     \* lines of an event-stream POST response body

\* capacity of endpointCh and errCh: make(chan string, 1), make(chan error, 1)
ChanCap == 1

StatusOK == 200
StatusAccepted == 202
StatusError == 500    \* stands for every other status

PResponse == [jsonrpc |-> "2.0", id |-> "num", result |-> TRUE,
              error |-> FALSE, method |-> FALSE]
PNotification == [jsonrpc |-> "2.0", id |-> "absent", result |-> FALSE,
                  error |-> FALSE, method |-> TRUE]
PNoMarker == [jsonrpc |-> "absent", id |-> "num", result |-> TRUE,
              error |-> FALSE, method |-> FALSE]

\* the messages the client sends in the transport specification
SendMsgs ==
    {[type |-> "request", params |-> RawObject(<<[key |-> "a", val |-> JNull]>>)]}

SseURLs == {S_https \o S_sep \o <<"h", "o", "/", "s">>}
SessionIds == {"s1", "s2"}

hist0 == [op |-> "hist", startOk |-> FALSE, startFailed |-> FALSE,
          hsFailed |-> FALSE, sent |-> FALSE, prevResp |-> ""]

\* NewCleaningStdioTransport / NewSSEClientTransport /
\* NewTraditionalSSETransport, as connectToServer selects them
Init ==
    /\ arg = [fn |-> "none"] /\ res = NotYet
    /\ serverType \in {"stdio", "http", "sse"}
    /\ sseURL \in (IF serverType = "sse" THEN SseURLs ELSE {<<>>})
    /\ started = FALSE /\ postEndpoint = <<>> /\ sseResp = "nil"
    /\ startPc = "idle" /\ readerPc = "none"
    /\ eventType = "" /\ dataLines = <<>> /\ endpointSent = FALSE /\ blockNamed = FALSE
    /\ endpointCh = <<>> /\ errCh = <<>>
    /\ messageHandler = FALSE /\ closeHandler = FALSE
    /\ errorHandler = FALSE /\ sessionID = "" /\ gets = 0
    /\ hist = hist0 /\ last = NoCall /\ callers = <<>>

\* ---- handler registration (all three transports) ----
SetMessageHandler ==
    /\ serverType \in {"stdio", "http", "sse"}
    /\ messageHandler' = TRUE
    /\ UNCHANGED <<pvars, cvars, serverType, sseURL, started, postEndpoint, sseResp,
                   startPc, readerPc, eventType, dataLines, endpointSent, blockNamed,
                   endpointCh, errCh, closeHandler, errorHandler,
                   sessionID, gets, hist, last>>

SetCloseHandler ==
    /\ serverType \in {"stdio", "http", "sse"}
    /\ closeHandler' = TRUE
    /\ UNCHANGED <<pvars, cvars, serverType, sseURL, started, postEndpoint, sseResp,
                   startPc, readerPc, eventType, dataLines, endpointSent, blockNamed,
                   endpointCh, errCh, messageHandler, errorHandler,
                   sessionID, gets, hist, last>>

SetErrorHandler ==
    /\ serverType \in {"stdio", "http", "sse"}
    /\ errorHandler' = TRUE
    /\ UNCHANGED <<pvars, cvars, serverType, sseURL, started, postEndpoint, sseResp,
                   startPc, readerPc, eventType, dataLines, endpointSent, blockNamed,
                   endpointCh, errCh, messageHandler, closeHandler,
                   sessionID, gets, hist, last>>

\* ---- lock modes of sync.RWMutex, as the calls hold them ----
\* "W" is Lock, "R" is RLock, "free" is no lock held, "n/a" is no access
Guarded(mode) == mode \in {"R", "W", "n/a"}

\* ---- Discovery-Stream transport (TraditionalSSETransport) ----
EventNames == {"endpoint", "message", "ping"}
StreamDatas == {DText(<<"/", "m">>), DJson(PResponse)}
StreamLines ==
    [kind : {"event"}, name : EventNames, data : {None}]
    \cup [kind : {"data"}, name : {""}, data : StreamDatas]
    \cup [kind : {"blank", "other"}, name : {""}, data : {None}]

StartRecord(result, get) ==
    [op |-> "Start", result |-> result, get |-> get,
     priorOk |-> hist.startOk, priorHsFailed |-> hist.hsFailed,
     readLock |-> "W", writeLock |-> "W", callLock |-> "n/a", calls |-> <<>>]
StartSucceeded == [hist EXCEPT !.startOk = TRUE]
StartFailed(afterGet) == [hist EXCEPT !.startFailed = TRUE,
                                      !.hsFailed = @ \/ afterGet]

\* a Start that never takes the idempotent return
AlreadyStartedNever(flag) == FALSE

\* the "if t.started" test that opens Start
AlreadyStarted(flag) == flag

\* TraditionalSSETransport.Start up to its select: the idempotence test, the
\* GET, the status and content-type tests, the assignment of sseResp and
\* started, and the spawn of the background reader
StartSSE ==
    /\ serverType = "sse" /\ startPc = "idle"
    /\ IF AlreadyStarted(started)
       THEN /\ last' = StartRecord("ok", FALSE)
            /\ gets' = gets
            /\ hist' = StartSucceeded
            /\ UNCHANGED <<started, sseResp, startPc, readerPc, eventType,
                           dataLines, endpointSent, blockNamed, endpointCh, errCh>>
       ELSE /\ gets < MaxGets
            /\ gets' = gets + 1
            /\ \E outcome \in {"connect", "status", "content type", "stream"} :
                 IF outcome = "stream"
                 THEN /\ sseResp' = "open"
                      /\ started' = TRUE
                      /\ readerPc' = "running"
                      /\ eventType' = "" /\ dataLines' = <<>>
                      /\ endpointSent' = FALSE /\ blockNamed' = FALSE
                      /\ endpointCh' = <<>> /\ errCh' = <<>>
                      /\ startPc' = "select"
                      /\ UNCHANGED <<hist, last>>
                 ELSE /\ last' = StartRecord(outcome, TRUE)
                      /\ hist' = StartFailed(FALSE)
                      /\ UNCHANGED <<started, sseResp, startPc, readerPc,
                                     eventType, dataLines, endpointSent, blockNamed,
                                     endpointCh, errCh>>
    /\ UNCHANGED <<pvars, cvars, serverType, sseURL, postEndpoint, messageHandler,
                   closeHandler, errorHandler, sessionID>>

\* the select that ends Start: an endpoint, a reader error, or ctx.Done()
StartSelect ==
    /\ serverType = "sse" /\ startPc = "select"
    /\ \/ /\ endpointCh # <<>>
          /\ postEndpoint' = resolveEndpoint(sseURL, Head(endpointCh))
          /\ endpointCh' = Tail(endpointCh)
          /\ last' = StartRecord("ok", TRUE)
          /\ hist' = StartSucceeded
          /\ UNCHANGED errCh
       \/ /\ errCh # <<>>
          /\ errCh' = Tail(errCh)
          /\ last' = StartRecord("failed to get endpoint", TRUE)
          /\ hist' = StartFailed(TRUE)
          /\ UNCHANGED <<postEndpoint, endpointCh>>
       \/ /\ last' = StartRecord("context done", TRUE)
          /\ hist' = StartFailed(TRUE)
          /\ UNCHANGED <<postEndpoint, endpointCh, errCh>>
    /\ startPc' = "idle"
    /\ UNCHANGED <<pvars, cvars, serverType, sseURL, started, sseResp, readerPc,
                   eventType, dataLines, endpointSent, blockNamed, messageHandler,
                   closeHandler, errorHandler, sessionID, gets>>

\* a reader that forgets it has sent the endpoint
endpointSentForgotten(sent) == sent

\* "endpointSent = true" after the send on endpointCh
endpointSentAfterSend(sent) == TRUE

\* a reader that keeps the lines of the event it has just handled
resetLinesKeep(lines) == lines

\* "dataLines = nil" at the end of an event
resetLines(lines) == <<>>

\* one iteration of readSSEEvents' scanner loop; blockNamed follows the
\* wire: an event: line names the block that the next blank line ends
ReaderLine ==
    /\ serverType = "sse" /\ readerPc = "running"
    /\ \E line \in StreamLines :
         CASE line.kind = "event" ->
                /\ eventType' = line.name
                /\ blockNamed' = TRUE
                /\ UNCHANGED <<dataLines, endpointSent, endpointCh, last>>
           [] line.kind = "data" ->
                /\ Len(dataLines) < MaxDataLines
                /\ dataLines' = Append(dataLines, line.data)
                /\ UNCHANGED <<eventType, endpointSent, blockNamed, endpointCh, last>>
           [] line.kind = "blank" /\ dataLines # <<>> ->
                /\ IF eventType = "endpoint" /\ ~endpointSent
                   THEN /\ endpointCh' = Append(endpointCh, JoinLines(dataLines).text)
                        /\ endpointSent' = endpointSentAfterSend(endpointSent)
                        /\ UNCHANGED last
                   ELSE IF eventType \in {"message", ""}
                   THEN /\ last' = [op |-> "dispatch",
                                    second |-> (last.op = "dispatch"
                                                  /\ last.calls # <<>>),
                                    data |-> JoinLines(dataLines),
                                    delivered |-> handleMessage(messageHandler,
                                                     JoinLines(dataLines)),
                                    readLock |-> "R", writeLock |-> "n/a",
                                    callLock |-> "free",
                                    calls |-> IF handleMessage(messageHandler,
                                                     JoinLines(dataLines)) = "none"
                                              THEN <<>> ELSE <<"message">>]
                        /\ UNCHANGED <<endpointSent, endpointCh>>
                   ELSE UNCHANGED <<endpointSent, endpointCh, last>>
                /\ eventType' = ""
                /\ dataLines' = resetLines(dataLines)
                /\ blockNamed' = FALSE
           [] line.kind = "blank" /\ dataLines = <<>> ->
                /\ blockNamed' = FALSE
                /\ UNCHANGED <<eventType, dataLines, endpointSent, endpointCh, last>>
           [] OTHER ->
                UNCHANGED <<eventType, dataLines, endpointSent, blockNamed,
                            endpointCh, last>>
    /\ UNCHANGED <<pvars, cvars, serverType, sseURL, started, postEndpoint, sseResp,
                   startPc, readerPc, errCh, messageHandler, closeHandler,
                   errorHandler, sessionID, gets, hist>>

\* a reader that runs the close handler a second time on a read error
ExitCallsTwice(err, onError, onClose) ==
    IF onClose THEN (IF err THEN <<"close", "close">> ELSE <<"close">>) ELSE <<>>

\* the handlers readSSEEvents invokes after its loop, in order: the close
\* handler when one is registered; t.errorHandler is not read
ExitCalls(err, onError, onClose) == IF onClose THEN <<"close">> ELSE <<>>

\* the scanner stops (end of input, or a read error: the only outcome once
\* Close has closed the body); the error is handed to Start when no endpoint
\* was sent, then the close handler is read under RLock and runs unlocked
ReaderExit ==
    /\ serverType = "sse" /\ readerPc = "running"
    /\ \E err \in (IF sseResp = "nil" THEN {TRUE} ELSE BOOLEAN) :
         /\ errCh' = IF err /\ ~endpointSent
                     THEN Append(errCh, "read error") ELSE errCh
         /\ last' = [op |-> "exit", err |-> err,
                     calls |-> ExitCalls(err, errorHandler, closeHandler),
                     readLock |-> "R", writeLock |-> "n/a", callLock |-> "free"]
    /\ readerPc' = "exited"
    /\ UNCHANGED <<pvars, cvars, serverType, sseURL, started, postEndpoint, sseResp,
                   startPc, eventType, dataLines, endpointSent, blockNamed, endpointCh,
                   messageHandler, closeHandler, errorHandler, sessionID,
                   gets, hist>>

\* what t.client.Do returns for the POST: a connection failure or a status
PostOutcomes == [connected : {FALSE}, status : {0}]
                \cup [connected : {TRUE},
                      status : {StatusOK, StatusAccepted, StatusError}]

\* a Send that takes 200 alone for success
PostAcceptedOnlyOK(status) == status = StatusOK

\* the status test of TraditionalSSETransport.Send
PostAccepted(status) == status = StatusOK \/ status = StatusAccepted

\* a Send that posts whatever the endpoint is
EndpointMissingNever(endpoint) == FALSE

\* the "if endpoint == \"\"" test that opens Send
EndpointMissing(endpoint) == endpoint = <<>>

\* TraditionalSSETransport.Send
SendSSE ==
    /\ serverType = "sse"
    /\ \E msg \in SendMsgs :
         IF EndpointMissing(postEndpoint)
         THEN last' = [op |-> "Send", msg |-> msg, callerMsg |-> msg,
                       post |-> FALSE, body |-> None, session |-> "",
                       status |-> 0,
                       readLock |-> "R", writeLock |-> "n/a",
                       callLock |-> "n/a", calls |-> <<>>,
                       result |-> "endpoint not received"]
         ELSE \E net \in PostOutcomes :
                last' = [op |-> "Send", msg |-> msg,
                         callerMsg |-> cleanMessageTraditional(msg),
                         post |-> TRUE,
                         body |-> cleanMessageTraditional(msg),
                         session |-> "", status |-> net.status,
                         readLock |-> "R", writeLock |-> "n/a",
                         callLock |-> "n/a", calls |-> <<>>,
                         result |-> IF ~net.connected THEN "failed to send request"
                                    ELSE IF PostAccepted(net.status) THEN "ok"
                                    ELSE "server returned error"]
    /\ UNCHANGED <<pvars, cvars, serverType, sseURL, started, postEndpoint, sseResp,
                   startPc, readerPc, eventType, dataLines, endpointSent, blockNamed,
                   endpointCh, errCh, messageHandler, closeHandler, errorHandler, sessionID, gets, hist>>

\* a Close that reports a release whatever the body is
bodyOpenAlways(resp) == TRUE

\* the "if t.sseResp != nil" test of Close
bodyOpen(resp) == resp = "open"

\* TraditionalSSETransport.Close: Lock with a deferred Unlock, so the body
\* is released and the close handler read and invoked with the lock held
CloseSSE ==
    /\ serverType = "sse"
    /\ sseResp' = "nil"
    /\ last' = [op |-> "Close", result |-> "ok", released |-> bodyOpen(sseResp),
                calls |-> IF closeHandler THEN <<"close">> ELSE <<>>,
                readLock |-> "W", writeLock |-> "W", callLock |-> "W"]
    /\ UNCHANGED <<pvars, cvars, serverType, sseURL, started, postEndpoint, startPc,
                   readerPc, eventType, dataLines, endpointSent, blockNamed, endpointCh,
                   errCh, messageHandler, closeHandler, errorHandler,
                   sessionID, gets, hist>>

\* ---- Streamable transport (SSEClientTransport) ----
BodyDatas == {DJson(PResponse), DJson(PNoMarker)}
BodyLines == [kind : {"data"}, data : BodyDatas]
             \cup [kind : {"blank"}, data : {None}]
LineSeqs == UNION {[1..n -> BodyLines] : n \in 0..MaxBodyLines}
JsonBodies == {DJson(PResponse), DJson(PNotification), DJson(PNoMarker)}

\* what t.client.Do returns for the POST: a connection failure, or a
\* response with a status, an Mcp-Session-Id header ("" when absent), a
\* content type and a body (json: None is the empty body); 202 is the
\* status a Streamable server answers a notification with; the session
\* header is captured before the body is looked at, so the event-stream
\* bodies are enumerated without one
HttpResponses ==
    [connected : {FALSE}, status : {0}, sid : {""}, ctype : {"none"},
     json : {None}, lines : {<<>>}]
    \cup [connected : {TRUE}, status : {StatusAccepted, StatusError},
          sid : {""} \cup SessionIds,
          ctype : {"application/json"}, json : {None}, lines : {<<>>}]
    \cup [connected : {TRUE}, status : {StatusOK}, sid : {""} \cup SessionIds,
          ctype : {"application/json"}, json : {None} \cup JsonBodies,
          lines : {<<>>}]
    \cup [connected : {TRUE}, status : {StatusOK}, sid : {""},
          ctype : {"text/event-stream"}, json : {None}, lines : LineSeqs]

\* SSEClientTransport.parseSSEResponse over the lines of the body: acc is
\* dataLines, delivered what the handler has received so far
RECURSIVE parseSSEResponse(_, _, _, _)
parseSSEResponse(handler, ls, acc, delivered) ==
    IF ls = <<>>
    THEN IF acc # <<>>
         THEN LET r == handleJSONResponse(handler, JoinLines(acc))
              IN [delivered |-> IF r.delivered = "none" THEN delivered
                                ELSE Append(delivered, r.delivered),
                  err |-> r.err, raw |-> r.raw]
         ELSE [delivered |-> delivered, err |-> "nil", raw |-> None]
    ELSE IF Head(ls).kind = "data"
    THEN parseSSEResponse(handler, Tail(ls), Append(acc, Head(ls).data), delivered)
    ELSE IF acc # <<>>
    THEN LET r == handleJSONResponse(handler, JoinLines(acc))
         IN IF r.err # "nil"
            THEN [delivered |-> delivered, err |-> r.err, raw |-> r.raw]
            ELSE parseSSEResponse(handler, Tail(ls), <<>>,
                                  IF r.delivered = "none" THEN delivered
                                  ELSE Append(delivered, r.delivered))
    ELSE parseSSEResponse(handler, Tail(ls), acc, delivered)

\* a capture that stores the header even when the response has none
captureSessionAlways(old, sid) == sid

\* the "Capture session ID from response" step of Send
captureSession(old, sid) == IF sid # "" THEN sid ELSE old

\* the status test of SSEClientTransport.Send: 200 and nothing else
ResponseOK(status) == status = StatusOK

\* what Send does with a response it received
handleResponse(handler, r) ==
    IF ~ResponseOK(r.status)
    THEN [delivered |-> <<>>, err |-> "server returned error", raw |-> None]
    ELSE IF r.ctype = "text/event-stream"
    THEN parseSSEResponse(handler, r.lines, <<>>, <<>>)
    ELSE IF r.json # None
    THEN LET h == handleJSONResponse(handler, r.json)
         IN [delivered |-> IF h.delivered = "none" THEN <<>> ELSE <<h.delivered>>,
             err |-> h.err, raw |-> h.raw]
    ELSE [delivered |-> <<>>, err |-> "nil", raw |-> None]

\* SSEClientTransport.Start
StartHTTP ==
    /\ serverType = "http"
    /\ last' = [op |-> "Start", result |-> "ok", get |-> FALSE,
                readLock |-> "n/a", writeLock |-> "n/a",
                callLock |-> "n/a", calls |-> <<>>]
    /\ UNCHANGED <<pvars, cvars, serverType, sseURL, started, postEndpoint, sseResp,
                   startPc, readerPc, eventType, dataLines, endpointSent, blockNamed,
                   endpointCh, errCh, messageHandler, closeHandler, errorHandler, sessionID, gets, hist>>

\* SSEClientTransport.Send
SendHTTP ==
    /\ serverType = "http"
    /\ \E msg \in SendMsgs :
       LET cleaned == cleanMessageSSEClient(msg) IN
       \E r \in HttpResponses :
         LET out == IF r.connected THEN handleResponse(messageHandler, r)
                    ELSE [delivered |-> <<>>, err |-> "failed to send request",
                          raw |-> None]
         IN /\ sessionID' = IF r.connected THEN captureSession(sessionID, r.sid)
                            ELSE sessionID
            /\ last' = [op |-> "Send", msg |-> msg,
                        callerMsg |-> cleaned,
                        post |-> TRUE, body |-> cleaned,
                        session |-> sessionID, first |-> ~hist.sent,
                        prevResp |-> hist.prevResp, response |-> r,
                        handler |-> messageHandler,
                        delivered |-> out.delivered, raw |-> out.raw,
                        readLock |-> "R",
                        writeLock |-> IF r.connected /\ r.sid # ""
                                      THEN "W" ELSE "n/a",
                        callLock |-> "free", calls |-> out.delivered,
                        result |-> IF out.err = "nil" THEN "ok" ELSE out.err]
            /\ hist' = [hist EXCEPT !.sent = TRUE,
                                    !.prevResp = IF r.connected THEN r.sid ELSE ""]
    /\ UNCHANGED <<pvars, cvars, serverType, sseURL, started, postEndpoint, sseResp,
                   startPc, readerPc, eventType, dataLines, endpointSent, blockNamed,
                   endpointCh, errCh, messageHandler, closeHandler, errorHandler, gets>>

\* SSEClientTransport.Close: t.closeHandler is read and invoked without
\* taking t.mu
CloseHTTP ==
    /\ serverType = "http"
    /\ last' = [op |-> "Close", result |-> "ok", released |-> FALSE,
                calls |-> IF closeHandler THEN <<"close">> ELSE <<>>,
                readLock |-> "free", writeLock |-> "n/a", callLock |-> "free"]
    /\ UNCHANGED <<pvars, cvars, serverType, sseURL, started, postEndpoint, sseResp,
                   startPc, readerPc, eventType, dataLines, endpointSent, blockNamed,
                   endpointCh, errCh, messageHandler, closeHandler, errorHandler,
                   sessionID, gets, hist>>

\* ---- Subprocess transport (CleaningStdioTransport) ----
\* what the inner transport's Start, Send or Close returns
InnerResults == {"ok", "inner error"}

\* CleaningStdioTransport.Start
StartStdio ==
    /\ serverType = "stdio"
    /\ \E r \in InnerResults : last' = [op |-> "Start", result |-> r, get |-> FALSE]
    /\ UNCHANGED <<pvars, cvars, serverType, sseURL, started, postEndpoint, sseResp,
                   startPc, readerPc, eventType, dataLines, endpointSent, blockNamed,
                   endpointCh, errCh, messageHandler, closeHandler, errorHandler, sessionID, gets, hist>>

\* CleaningStdioTransport.Send
SendStdio ==
    /\ serverType = "stdio"
    /\ \E msg \in SendMsgs, r \in InnerResults :
         last' = [op |-> "Send", msg |-> msg,
                  callerMsg |-> cleanMessageStdio(msg), post |-> FALSE,
                  body |-> cleanMessageStdio(msg), session |-> "",
                  result |-> r]
    /\ UNCHANGED <<pvars, cvars, serverType, sseURL, started, postEndpoint, sseResp,
                   startPc, readerPc, eventType, dataLines, endpointSent, blockNamed,
                   endpointCh, errCh, messageHandler, closeHandler, errorHandler, sessionID, gets, hist>>

\* CleaningStdioTransport.Close
CloseStdio ==
    /\ serverType = "stdio"
    /\ \E r \in InnerResults :
         last' = [op |-> "Close", result |-> r, released |-> FALSE]
    /\ UNCHANGED <<pvars, cvars, serverType, sseURL, started, postEndpoint, sseResp,
                   startPc, readerPc, eventType, dataLines, endpointSent, blockNamed,
                   endpointCh, errCh, messageHandler, closeHandler, errorHandler, sessionID, gets, hist>>

Next ==
    \/ SetMessageHandler \/ SetCloseHandler \/ SetErrorHandler
    \/ StartSSE \/ StartSelect \/ ReaderLine \/ ReaderExit
    \/ SendSSE \/ CloseSSE
    \/ StartHTTP \/ SendHTTP \/ CloseHTTP
    \/ StartStdio \/ SendStdio \/ CloseStdio

Spec == Init /\ [][Next]_vars

\* one TraditionalSSETransport instance, as connectSSE builds it
InitTraditionalSSE == Init /\ serverType = "sse"
NextTraditionalSSE ==
    \/ SetMessageHandler \/ SetCloseHandler \/ SetErrorHandler
    \/ StartSSE \/ StartSelect \/ ReaderLine \/ ReaderExit
    \/ SendSSE \/ CloseSSE
SpecTraditionalSSE == InitTraditionalSSE /\ [][NextTraditionalSSE]_vars

\* one SSEClientTransport instance, as connectHTTP builds it
InitSSEClient == Init /\ serverType = "http"
NextSSEClient ==
    \/ SetMessageHandler \/ SetCloseHandler \/ SetErrorHandler
    \/ StartHTTP \/ SendHTTP \/ CloseHTTP
SpecSSEClient == InitSSEClient /\ [][NextSSEClient]_vars

(***************************************************************************)
(* Concurrent Start calls on one TraditionalSSETransport.  Start holds     *)
(* t.mu twice, once around the test of started and once around the         *)
(* assignment of sseResp and started, with the GET between the two; each   *)
(* critical section is one step here.  endpointCh, errCh and the reader    *)
(* are locals of the call that made them, so each call has its own.        *)
(***************************************************************************)
Callers == {"g1", "g2"}

\* a call's position ("idle": not in Start), the reader it spawned ("sent":
\* running, endpoint already written), its channel slot and what its last
\* Start returned
IdleCaller == [pc |-> "idle", reader |-> "none", slot |-> "empty",
               result |-> "none"]

InitConcurrentStart ==
    /\ arg = [fn |-> "none"] /\ res = NotYet
    /\ serverType = "sse" /\ sseURL \in SseURLs
    /\ started = FALSE /\ postEndpoint = <<>> /\ sseResp = "nil"
    /\ startPc = "idle" /\ readerPc = "none"
    /\ eventType = "" /\ dataLines = <<>> /\ endpointSent = FALSE
    /\ blockNamed = FALSE /\ endpointCh = <<>> /\ errCh = <<>>
    /\ messageHandler = FALSE /\ closeHandler = FALSE
    /\ errorHandler = FALSE /\ sessionID = "" /\ gets = 0
    /\ hist = hist0 /\ last = NoCall
    /\ callers = [c \in Callers |-> IdleCaller]

\* Start, first critical section: Lock, test started, Unlock
StartTest(c) ==
    /\ callers[c].pc = "idle"
    /\ IF AlreadyStarted(started)
       THEN callers' = [callers EXCEPT ![c].result = "ok"]
       ELSE callers' = [callers EXCEPT ![c].pc = "tested"]
    /\ UNCHANGED <<pvars, tvars>>

\* Start from the GET to the spawn of the reader: the request, the status
\* and content-type tests, then Lock, sseResp and started assigned, Unlock,
\* the two channels made and readSSEEvents started
StartConnect(c) ==
    /\ callers[c].pc = "tested"
    /\ gets < MaxGets
    /\ gets' = gets + 1
    /\ \E outcome \in {"connect", "status", "content type", "stream"} :
         IF outcome = "stream"
         THEN /\ sseResp' = "open"
              /\ started' = TRUE
              /\ callers' = [callers EXCEPT ![c] =
                               [pc |-> "select", reader |-> "running",
                                slot |-> "empty", result |-> "none"]]
         ELSE /\ callers' = [callers EXCEPT ![c].pc = "idle",
                                            ![c].result = outcome]
              /\ UNCHANGED <<started, sseResp>>
    /\ UNCHANGED <<pvars, serverType, sseURL, postEndpoint, startPc, readerPc,
                   eventType, dataLines, endpointSent, blockNamed, endpointCh,
                   errCh, messageHandler, closeHandler, errorHandler,
                   sessionID, hist, last>>

\* the reader of call c: it writes the first endpoint event to its
\* endpointCh, or stops, writing the read error to its errCh when no
\* endpoint was sent
ReaderRun(c) ==
    /\ callers[c].reader \in {"running", "sent"}
    /\ \/ /\ callers[c].reader = "running"
          /\ callers' = [callers EXCEPT ![c].reader = "sent",
                                        ![c].slot = "endpoint"]
       \/ \E err \in BOOLEAN :
            callers' = [callers EXCEPT
                          ![c].reader = "exited",
                          ![c].slot = IF err /\ callers[c].reader = "running"
                                      THEN "error" ELSE @]
    /\ UNCHANGED <<pvars, tvars>>

\* the select that ends the Start of call c
StartWait(c) ==
    /\ callers[c].pc = "select"
    /\ \/ /\ callers[c].slot = "endpoint"
          /\ postEndpoint' = resolveEndpoint(sseURL, <<"/", "m">>)
          /\ callers' = [callers EXCEPT ![c].pc = "idle", ![c].slot = "empty",
                                        ![c].result = "ok"]
       \/ /\ callers[c].slot = "error"
          /\ callers' = [callers EXCEPT ![c].pc = "idle", ![c].slot = "empty",
                                        ![c].result = "failed to get endpoint"]
          /\ UNCHANGED postEndpoint
       \/ /\ callers' = [callers EXCEPT ![c].pc = "idle",
                                        ![c].result = "context done"]
          /\ UNCHANGED postEndpoint
    /\ UNCHANGED <<pvars, serverType, sseURL, started, sseResp, startPc,
                   readerPc, eventType, dataLines, endpointSent, blockNamed,
                   endpointCh, errCh, messageHandler, closeHandler,
                   errorHandler, sessionID, gets, hist, last>>

NextConcurrentStart ==
    \E c \in Callers :
        StartTest(c) \/ StartConnect(c) \/ ReaderRun(c) \/ StartWait(c)

SpecConcurrentStart == InitConcurrentStart /\ [][NextConcurrentStart]_vars

(***************************************************************************)
(* Claims.                                                                 *)
(***************************************************************************)

\* ---- C10 ----
\* the path without its last segment ("/a/s" gives "/a", "" stays "")
DropLastSegment(path) ==
    IF path = <<>> THEN path ELSE Slice(path, LastIndex(path, "/"))
StripSlash(e) == IF HasPrefix(e, <<"/">>) THEN Tail(e) ELSE e
ResolveExpected(a) ==
    IF a.endpoint \in AbsoluteEndpoints THEN a.endpoint
    ELSE a.scheme \o S_sep \o a.host \o DropLastSegment(a.path)
             \o <<"/">> \o StripSlash(a.endpoint)

\* C10: for every http or https origin and every endpoint string, an
\* absolute endpoint is returned verbatim and a relative one is joined, with
\* exactly one "/", to the origin's scheme+host+path minus the last path
\* segment.
C10_ResolveAsClaimed ==
    (arg.fn = "resolve" /\ res.done) => res.out = ResolveExpected(arg)

\* ---- C8 ----
\* the params text is left alone: not a Request, params absent or empty, or
\* a text that is not a key-value object
CleanLeavesAlone(msg) ==
    msg.type # "request" \/ msg.params.form \in {"empty", "array"}
\* the top-level keys whose value is not the null literal
KeptKeys(ms) == {k \in MemberKeys(ms) : MemberVal(ms, k) # JNull}
\* out is in as the reference normalizer leaves it (the literal null counts
\* as a mapping without entries)
CleanedAsReference(in, out) ==
    IF CleanLeavesAlone(in) THEN out = in
    ELSE /\ out.type = in.type
         /\ out.params.form = "object"
         /\ Len(out.params.members) = Cardinality(MemberKeys(out.params.members))
         /\ MemberKeys(out.params.members) = KeptKeys(in.params.members)
         /\ \A k \in KeptKeys(in.params.members) :
                MemberVal(out.params.members, k) = MemberVal(in.params.members, k)

\* C8: each of the three normalizers returns what the reference returns: the
\* message unchanged when there is nothing to normalize, otherwise the same
\* object without its top-level null-valued keys, every other key and value
\* kept, and exactly {} when every entry was null.
C8_NormalizersMatchReference ==
    (arg.fn = "clean" /\ res.done) =>
        /\ CleanedAsReference(arg.msg, res.out.stdio)
        /\ CleanedAsReference(arg.msg, res.out.http)
        /\ CleanedAsReference(arg.msg, res.out.sse)

\* ---- C6 ----
\* the field discriminator of the four variants
ShapeOf(p) ==
    CASE p.id = "num" /\ p.result /\ ~p.error /\ ~p.method -> "response"
      [] p.id = "num" /\ p.error /\ ~p.result /\ ~p.method -> "error"
      [] p.id = "absent" /\ p.method /\ ~p.result /\ ~p.error -> "notification"
      [] p.id = "num" /\ p.method /\ ~p.result /\ ~p.error -> "request"
      [] OTHER -> "mixed"

\* C6: a payload with a non-empty version marker is delivered under the tag
\* its fields discriminate; one with id and result is never delivered as a
\* Notification, one with id and method never as a Notification or an Error.
C6_ClassifiedByDiscriminator ==
    (arg.fn = "classify" /\ res.done /\ arg.handler /\ arg.payload.jsonrpc = "2.0") =>
        /\ ShapeOf(arg.payload) # "mixed" =>
              /\ res.out.http.delivered = ShapeOf(arg.payload)
              /\ res.out.sse = ShapeOf(arg.payload)
        /\ (arg.payload.id = "num" /\ arg.payload.result) =>
              /\ res.out.http.delivered # "notification"
              /\ res.out.sse # "notification"
        /\ (arg.payload.id = "num" /\ arg.payload.method) =>
              /\ res.out.http.delivered \notin {"notification", "error"}
              /\ res.out.sse \notin {"notification", "error"}

\* ---- C1 ----
\* C1: on the Discovery-Stream transport a Send made while no endpoint is
\* resolved returns a reported failure and issues no HTTP POST.
C1_SendWithoutEndpointFails ==
    (serverType = "sse" /\ last.op = "Send" /\ postEndpoint = <<>>) =>
        /\ last.result # "ok"
        /\ ~last.post
\* a Send was refused after a handshake that failed
C1_Witness ==
    /\ serverType = "sse" /\ last.op = "Send" /\ postEndpoint = <<>>
    /\ hist.hsFailed /\ last.result = "endpoint not received"

\* ---- C2 ----
\* C2: a Start made after an earlier Start has succeeded returns success and
\* issues no GET; no GET is ever issued after a success, and when no Start
\* has failed the instance has issued exactly one GET.
C2_StartIdempotent ==
    /\ [](serverType = "sse" =>
            /\ (last.op = "Start" /\ last.priorOk) =>
                   (last.result = "ok" /\ ~last.get)
            /\ (hist.startOk /\ ~hist.startFailed) => gets = 1)
    /\ [][(serverType = "sse" /\ hist.startOk) => gets' = gets]_vars
\* the second of two successful Start calls has returned
C2_Witness ==
    /\ serverType = "sse" /\ last.op = "Start" /\ last.priorOk
    /\ last.result = "ok" /\ ~hist.startFailed /\ postEndpoint # <<>>

\* ---- C3 ----
\* C3: when the handshake fails after the GET was accepted, Start returns a
\* failure and leaves the transport unstarted, so a later Start issues a new
\* GET instead of returning success without an endpoint.
C3_FailedHandshakeLeavesUnstarted ==
    serverType = "sse" =>
        /\ (last.op = "Start" /\ last.get
              /\ last.result \in {"failed to get endpoint", "context done"}) =>
                 ~started
        /\ (last.op = "Start" /\ last.priorHsFailed /\ ~last.priorOk) =>
                 (last.get /\ (last.result = "ok" => postEndpoint # <<>>))

\* ---- C4 ----
\* C4: started holds only when the endpoint is resolved, and once a Start
\* has returned success no Send fails for want of an endpoint.
C4_StartedImpliesEndpoint ==
    serverType = "sse" =>
        /\ started => postEndpoint # <<>>
        /\ (last.op = "Send" /\ hist.startOk) =>
               last.result # "endpoint not received"

\* ---- C5 ----
\* C5: on the Streamable transport the request of a Send carries the session
\* header the previous response carried, the first request of an instance
\* carries none, a response without the header leaves the stored token
\* unchanged, one with a header replaces it, and a stored token never
\* becomes empty again.
C5_SessionTokenReplayed ==
    /\ []((serverType = "http" /\ last.op = "Send") =>
            /\ last.prevResp # "" => last.session = last.prevResp
            /\ last.first => last.session = ""
            /\ last.response.connected =>
                 sessionID = (IF last.response.sid # "" THEN last.response.sid
                              ELSE last.session))
    /\ [][(serverType = "http" /\ sessionID # "") => sessionID' # ""]_vars
\* a Send replayed the token s1 and its response replaced it by s2
C5_Witness ==
    /\ serverType = "http" /\ last.op = "Send"
    /\ last.prevResp = "s1" /\ last.session = "s1"
    /\ last.response.connected /\ last.response.sid = "s2" /\ sessionID = "s2"

\* ---- C7 ----
\* bytes that carry no non-empty version marker, or are not one JSON object
NoMarker(d) == ~d.json \/ d.payload.jsonrpc # "2.0"
\* the completed events of an event-stream body, and its unterminated tail
RECURSIVE SplitEvents(_, _)
SplitEvents(ls, acc) ==
    IF ls = <<>> THEN (IF acc = <<>> THEN <<>> ELSE <<JoinLines(acc)>>)
    ELSE IF Head(ls).kind = "data"
    THEN SplitEvents(Tail(ls), Append(acc, Head(ls).data))
    ELSE IF acc = <<>> THEN SplitEvents(Tail(ls), acc)
    ELSE <<JoinLines(acc)>> \o SplitEvents(Tail(ls), <<>>)
\* the payloads a successful response hands to the classifier
PayloadsOf(r) ==
    IF ~r.connected \/ r.status # StatusOK THEN <<>>
    ELSE IF r.ctype = "text/event-stream" THEN SplitEvents(r.lines, <<>>)
    ELSE IF r.json = None THEN <<>> ELSE <<r.json>>
FirstNoMarker(ps) ==
    CHOOSE i \in 1..Len(ps) : NoMarker(ps[i]) /\ \A j \in 1..(i - 1) : ~NoMarker(ps[j])
\* the Send of last received a payload no variant accepts
GotNoMarker ==
    /\ serverType = "http" /\ last.op = "Send"
    /\ \E i \in 1..Len(PayloadsOf(last.response)) :
           NoMarker(PayloadsOf(last.response)[i])
\* that Send failed with the payload's bytes and dispatched nothing from it on
SendFailedWithPayload ==
    LET ps == PayloadsOf(last.response)
    IN /\ last.result = "invalid response"
       /\ last.raw = ps[FirstNoMarker(ps)]
       /\ Len(last.delivered) < FirstNoMarker(ps)
NeverDispatched ==
    /\ (serverType = "sse" /\ last.op = "dispatch" /\ NoMarker(last.data)) =>
           last.delivered = "none"
    /\ GotNoMarker =>
           Len(last.delivered) < FirstNoMarker(PayloadsOf(last.response))

\* C7 as stated: a payload no variant accepts is never dispatched, and the
\* Streamable Send that received it returns a classification failure
\* carrying its bytes.
C7_UnclassifiableFailsSend ==
    /\ NeverDispatched
    /\ GotNoMarker => SendFailedWithPayload

\* C7 as amended: the failure is returned when a message handler is
\* registered; with none registered the payload is skipped and Send
\* returns success.
C7_UnclassifiableFailsSendWithHandler ==
    /\ NeverDispatched
    /\ (GotNoMarker /\ last.handler) => SendFailedWithPayload
    /\ (GotNoMarker /\ ~last.handler) =>
           (last.result = "ok" /\ last.delivered = <<>>)
\* a Send with a handler registered failed on an event of a stream body
C7_Witness ==
    /\ GotNoMarker /\ last.handler
    /\ last.response.ctype = "text/event-stream"
    /\ last.result = "invalid response" /\ last.raw = DJson(PNoMarker)

\* ---- C9 ----
\* C9: whenever Send returns an error, the message the caller passed in is
\* as it was before the call.
C9_FailedSendLeavesMessage ==
    (last.op = "Send" /\ last.result # "ok") => last.callerMsg = last.msg

\* ---- observations of the Discovery-Stream reader ----
\* the name the block being read carries on the wire: that of an event: line
\* read since the last blank line, none otherwise
WireName == IF blockNamed THEN eventType ELSE ""
\* the step reads the blank line that ends a block with data
EventCompletes ==
    /\ serverType = "sse" /\ readerPc = "running" /\ readerPc' = "running"
    /\ dataLines # <<>> /\ dataLines' = <<>>
\* the step ends the reader
ReaderStops == serverType = "sse" /\ readerPc = "running" /\ readerPc' = "exited"
\* a completed message event with classifiable data and a handler to take it
Dispatchable ==
    /\ EventCompletes /\ WireName \in {"message", ""} /\ messageHandler
    /\ ClassifyBytes(JoinLines(dataLines)) # "none"
\* the step hands exactly that event to the handler, once
DispatchedNow ==
    /\ last'.op = "dispatch" /\ last'.data = JoinLines(dataLines)
    /\ last'.delivered = ClassifyBytes(JoinLines(dataLines))
    /\ last'.calls = <<"message">>

\* ---- C11 ----
\* C11: the reader hands at most one endpoint value to Start, the data of
\* the first event named endpoint on the wire, and an event named endpoint
\* is never passed to the message handler.
C11_EndpointDeliveredOnce ==
    /\ [](serverType = "sse" => Len(endpointCh) <= 1)
    /\ [][(serverType = "sse" /\ Len(endpointCh') > Len(endpointCh)) =>
             /\ EventCompletes /\ ~endpointSent /\ WireName = "endpoint"
             /\ endpointCh' = <<JoinLines(dataLines).text>>]_vars
    /\ [][(serverType = "sse" /\ endpointSent) =>
             (endpointSent' /\ Len(endpointCh') <= Len(endpointCh))]_vars
    /\ [][(EventCompletes /\ WireName = "endpoint") =>
             /\ last' = last
             /\ ~endpointSent => endpointCh' = <<JoinLines(dataLines).text>>]_vars

\* ---- C12 ----
\* C12: every completed event named message, or carrying no name, whose data
\* classifies is handed to the registered message handler exactly once,
\* whatever blocks came before it.
C12_MessageEventsDispatched ==
    [][Dispatchable => DispatchedNow]_vars

\* ---- C13 ----
\* C13: a dispatch hands over the event whose last line was just read, in
\* the step that reads it, so the handler sees events in wire order.
C13_DispatchInWireOrder ==
    [][(serverType = "sse" /\ last'.op = "dispatch" /\ last' # last) =>
          /\ EventCompletes
          /\ last'.data = JoinLines(dataLines)]_vars
\* a second event was dispatched after an earlier one
C13_Witness ==
    /\ serverType = "sse" /\ last.op = "dispatch" /\ last.second
    /\ last.calls = <<"message">> /\ readerPc = "running"

\* ---- C14 ----
\* C14: a message event with unclassifiable data is dropped: no handler
\* runs, the reader keeps running, and a later well-formed message event
\* is still dispatched.
C14_MalformedEventDropped ==
    /\ [][(EventCompletes /\ WireName \in {"message", ""}
             /\ ClassifyBytes(JoinLines(dataLines)) = "none") =>
             (last'.op # "exit" /\ (last' # last => last'.calls = <<>>))]_vars
    /\ [][(Dispatchable /\ last.op = "dispatch"
             /\ ClassifyBytes(last.data) = "none") => DispatchedNow]_vars

\* ---- C15 ----
\* C15: on the Streamable transport every classifiable event of an
\* event-stream body reaches the handler, also those that follow an
\* unclassifiable one.
C15_StreamContinuesAfterUnclassifiable ==
    (serverType = "http" /\ last.op = "Send" /\ last.handler
        /\ last.response.connected /\ last.response.status = StatusOK
        /\ last.response.ctype = "text/event-stream") =>
        Len(last.delivered) =
            Len(SelectSeq(PayloadsOf(last.response), LAMBDA d : ~NoMarker(d)))

\* ---- C16 ----
\* C16: when the stream ends the reader invokes the registered close
\* handler exactly once, then has exited: it dispatches nothing and sends
\* no endpoint afterwards.
C16_ReaderClosesOnce ==
    /\ [][ReaderStops =>
             /\ last'.op = "exit"
             /\ last'.calls = (IF closeHandler THEN <<"close">> ELSE <<>>)]_vars
    /\ [][(serverType = "sse" /\ readerPc = "exited") =>
             /\ readerPc' = "exited"
             /\ last'.op \in {"dispatch", "exit"} => last' = last
             /\ Len(endpointCh') <= Len(endpointCh)]_vars
\* the stream ended after the handshake and the close handler ran
C16_Witness ==
    /\ serverType = "sse" /\ readerPc = "exited" /\ last.op = "exit"
    /\ last.calls = <<"close">> /\ postEndpoint # <<>>

\* ---- C17 ----
\* C17: every Close returns ok, in any lifecycle state; a Close releases
\* the body only when one is open, and the body opens at most once, so it
\* is released at most once.
C17_CloseRepeatable ==
    /\ []((serverType = "sse" /\ last.op = "Close") =>
             (last.result = "ok" /\ (last.released => started)))
    /\ [][(serverType = "sse" /\ last'.op = "Close" /\ last'.released
             /\ last' # last) =>
             (sseResp = "open" /\ sseResp' = "nil")]_vars
    /\ [][(serverType = "sse" /\ sseResp = "nil" /\ sseResp' = "open") =>
             ~started]_vars
    /\ [][(serverType = "sse" /\ started) => started']_vars
\* a Close found the body already released by an earlier Close
C17_Witness ==
    /\ serverType = "sse" /\ last.op = "Close" /\ last.result = "ok"
    /\ ~last.released /\ started /\ sseResp = "nil"

\* ---- C18 ----
\* C18: whenever a call has invoked a handler, the transport's lock was
\* not held during the invocation.
C18_HandlersRunUnlocked ==
    (serverType \in {"http", "sse"} /\ last.op # "none" /\ last.calls # <<>>) =>
        last.callLock = "free"

\* ---- C19 ----
\* C19: every call reads the shared fields with the lock held for reading
\* or writing and writes them with the lock held for writing.
C19_SharedFieldsGuarded ==
    (serverType \in {"http", "sse"} /\ last.op # "none") =>
        /\ Guarded(last.readLock)
        /\ last.writeLock \in {"W", "n/a"}

\* ---- C20 ----
\* C20: when the reader ends on a read error after the handshake has
\* completed, the registered error handler is invoked before the close
\* handler.
C20_ErrorHandlerBeforeClose ==
    [][(ReaderStops /\ last'.op = "exit" /\ last'.err
          /\ postEndpoint # <<>> /\ errorHandler) =>
          /\ Len(last'.calls) >= 1 /\ last'.calls[1] = "error"
          /\ closeHandler => last'.calls = <<"error", "close">>]_vars

\* ---- C21 ----
\* the step is the ctx.Done() arm of Start's select: Start returns and takes
\* nothing from either channel
CancelArm ==
    /\ serverType = "sse" /\ startPc = "select" /\ startPc' = "idle"
    /\ endpointCh' = endpointCh /\ errCh' = errCh
\* C21: a Start whose context is done while it waits returns the
\* cancellation failure, and every later write of the reader to endpointCh
\* or errCh finds the buffer slot free, so the write does not block and the
\* reader goes on to its exit.
C21_CancelledStartReaderNeverBlocks ==
    /\ [][CancelArm => last'.result = "context done"]_vars
    /\ [](serverType = "sse" =>
             (Len(endpointCh) <= ChanCap /\ Len(errCh) <= ChanCap))
    /\ [][(serverType = "sse" /\ Len(endpointCh') > Len(endpointCh)) =>
             Len(endpointCh) < ChanCap]_vars
    /\ [][(serverType = "sse" /\ Len(errCh') > Len(errCh)) =>
             Len(errCh) < ChanCap]_vars
\* Start was cancelled, the reader then hit a read error, wrote it to errCh
\* with nobody listening, and exited
C21_Witness ==
    /\ serverType = "sse" /\ startPc = "idle" /\ hist.hsFailed
    /\ ~hist.startOk /\ errCh # <<>> /\ readerPc = "exited"
    /\ last.op = "exit" /\ last.err

\* ---- C23 ----
\* C23: with a resolved endpoint, Send returns ok exactly when the POST is
\* answered 200 or 202 and the "server returned error" failure for every
\* other status; it invokes no handler and sends no session header.
C23_PostStatusDecidesSend ==
    (serverType = "sse" /\ last.op = "Send" /\ last.post) =>
        /\ last.status \in {StatusOK, StatusAccepted} <=> last.result = "ok"
        /\ (last.status # 0 /\ last.status \notin {StatusOK, StatusAccepted})
              <=> last.result = "server returned error"
        /\ last.calls = <<>>
        /\ last.session = ""
\* a POST answered 202 made Send return ok
C23_Witness ==
    /\ serverType = "sse" /\ last.op = "Send" /\ last.post
    /\ last.status = StatusAccepted /\ last.result = "ok"
    /\ postEndpoint # <<>>

\* ---- C24 ----
\* C24: when the reader has exited without sending an endpoint while Start
\* still waits, an error is in errCh for Start to take, so Start returns a
\* failure without its context having to be done.
C24_StreamEndWakesStart ==
    (serverType = "sse" /\ startPc = "select" /\ readerPc = "exited"
        /\ endpointCh = <<>>) => errCh # <<>>

\* ---- C26 ----
\* C26: when a Close has invoked the close handler, the reader that then
\* observes the closed body and exits does not invoke it again.
C26_CloseHandlerAtMostOnce ==
    [][(ReaderStops /\ last.op = "Close" /\ last.calls = <<"close">>) =>
          last'.calls = <<>>]_vars

\* ---- C22 ----
\* the success statuses of HTTP
IsSuccess(status) == status \in 200..299
\* C22: a Streamable Send that got a response returns the "server returned
\* error" failure exactly when the status is not a success status, and then
\* dispatches nothing; a success status with an empty body is ok with
\* nothing dispatched; a success status with a classifiable plain JSON body
\* and a handler registered dispatches exactly one message.
C22_StatusDecidesStreamableSend ==
    (serverType = "http" /\ last.op = "Send" /\ last.response.connected) =>
        /\ last.result = "server returned error"
              <=> ~IsSuccess(last.response.status)
        /\ ~IsSuccess(last.response.status) => last.delivered = <<>>
        /\ (IsSuccess(last.response.status)
              /\ last.response.ctype = "application/json"
              /\ last.response.json = None) =>
              (last.result = "ok" /\ last.delivered = <<>>)
        /\ (IsSuccess(last.response.status)
              /\ last.response.ctype = "application/json"
              /\ last.response.json # None /\ last.handler
              /\ ~NoMarker(last.response.json)) =>
              (last.result = "ok" /\ Len(last.delivered) = 1)

\* ---- C27 ----
\* the stored entry is the one of the requested server: same name or same URL
ExactEntry(entry) ==
    entry.ServerName = arg.serverName \/ entry.ServerURL = arg.serverURL
\* C27: a token is returned only from an entry whose server name or server
\* URL equals the requested one, and the lookup fails when no entry does.
C27_TokenOnlyOnExactMatch ==
    (arg.fn = "token" /\ res.done) =>
        /\ res.out.ok =>
              (res.out.key \in DOMAIN arg.creds
                 /\ ExactEntry(arg.creds[res.out.key]))
        /\ (\A k \in DOMAIN arg.creds : ~ExactEntry(arg.creds[k])) =>
              ~res.out.ok

\* ---- C25 ----
\* the calls whose GET was accepted as the stream, and those whose reader
\* is still running
StreamsOpened == {c \in DOMAIN callers : callers[c].reader # "none"}
ReadersRunning ==
    {c \in DOMAIN callers : callers[c].reader \in {"running", "sent"}}
\* C25: however concurrent Start calls interleave, at most one GET is
\* accepted as the event stream and at most one background reader runs.
C25_OneStreamOneReader ==
    serverType = "sse" =>
        (Cardinality(StreamsOpened) <= 1 /\ Cardinality(ReadersRunning) <= 1)

====
